---- MODULE Spec2Model ----
(***************************************************************************)
(* Model of SimpleSqlBuilder (src/SimpleSqlBuilder.js).                     *)
(*                                                                         *)
(* Text is a sequence of characters; a character is a one-character string *)
(* except for the characters that TLA+ strings cannot spell: "NUL" (\0),   *)
(* "BS" (\b), "SUB" (\x1a) and "BQ" (the backtick).  A JavaScript value is *)
(* a record tagged by t: "null", "bool", "num", "str" or "arr".            *)
(***************************************************************************)
EXTENDS Integers, Sequences, FiniteSets, TLC

VARIABLES this, calls, arg, result

vars == <<this, calls, arg, result>>

-----------------------------------------------------------------------------
(* JavaScript values *)

VNull == [t |-> "null"]
VBool(b) == [t |-> "bool", b |-> b]
VNum(n) == [t |-> "num", n |-> n]
VStr(s) == [t |-> "str", s |-> s]
VArr(a) == [t |-> "arr", a |-> a]

\* the typeof operator
typeof(val) ==
    CASE val.t = "bool" -> "boolean"
      [] val.t = "num" -> "number"
      [] val.t = "str" -> "string"
      [] OTHER -> "object"

Digits == <<"0", "1", "2", "3", "4", "5", "6", "7", "8", "9">>

RECURSIVE NumStr(_)
\* decimal text of a natural number, as String(n) and `${n}` give it
NumStr(n) ==
    IF n < 10 THEN <<Digits[n + 1]>>
    ELSE NumStr(n \div 10) \o <<Digits[(n % 10) + 1]>>

RECURSIVE join(_, _)
\* Array.prototype.join
join(list, sep) ==
    IF Len(list) = 0 THEN <<>>
    ELSE IF Len(list) = 1 THEN list[1]
    ELSE list[1] \o sep \o join(Tail(list), sep)

\* String(val), which is also what a template literal does to val
String(val) ==
    CASE val.t = "null" -> <<"n", "u", "l", "l">>
      [] val.t = "bool" -> IF val.b THEN <<"t", "r", "u", "e">>
                           ELSE <<"f", "a", "l", "s", "e">>
      [] val.t = "num" -> NumStr(val.n)
      [] val.t = "str" -> val.s
      [] OTHER -> join([i \in 1..Len(val.a) |->
                          CASE val.a[i].t = "null" -> <<>>
                            [] val.a[i].t = "bool" ->
                                 IF val.a[i].b THEN <<"t", "r", "u", "e">>
                                 ELSE <<"f", "a", "l", "s", "e">>
                            [] val.a[i].t = "num" -> NumStr(val.a[i].n)
                            [] OTHER -> val.a[i].s], <<",">>)

\* the character class [a-zA-Z_0-9] of the two regular expressions
WordChars ==
    {"a", "b", "c", "d", "e", "f", "g", "h", "i", "j", "k", "l", "m",
     "n", "o", "p", "q", "r", "s", "t", "u", "v", "w", "x", "y", "z",
     "A", "B", "C", "D", "E", "F", "G", "H", "I", "J", "K", "L", "M",
     "N", "O", "P", "Q", "R", "S", "T", "U", "V", "W", "X", "Y", "Z",
     "0", "1", "2", "3", "4", "5", "6", "7", "8", "9", "_"}

\* last index of the maximal run of characters of class cls that starts at i
\* (i - 1 when s[i] is not in cls)
RunEnd(s, i, cls) ==
    IF \E j \in i..Len(s) : s[j] \notin cls
    THEN (CHOOSE j \in i..Len(s) :
              s[j] \notin cls /\ \A k \in i..(j - 1) : s[k] \in cls) - 1
    ELSE Len(s)

-----------------------------------------------------------------------------
(* sqlEscape *)

\* the character class of reg
EscChars == {"NUL", "BS", "\t", "\n", "\r", "SUB", "\"", "'", "\\"}

\* map
EscMap(c) ==
    CASE c = "NUL" -> <<"\\", "0">>
      [] c = "BS" -> <<"\\", "b">>
      [] c = "\t" -> <<"\\", "t">>
      [] c = "\n" -> <<"\\", "n">>
      [] c = "\r" -> <<"\\", "r">>
      [] c = "SUB" -> <<"\\", "Z">>
      [] c = "\"" -> <<"\\", "\"">>
      [] c = "'" -> <<"\\", "'">>
      [] c = "\\" -> <<"\\", "\\">>

RECURSIVE sqlEscapeLoop(_, _, _)
\* the while loop: chunk is reg.lastIndex after the previous match
sqlEscapeLoop(val, chunk, escaped) ==
    IF \E m \in (chunk + 1)..Len(val) : val[m] \in EscChars
    THEN LET m == CHOOSE m \in (chunk + 1)..Len(val) :
                      /\ val[m] \in EscChars
                      /\ \A k \in (chunk + 1)..(m - 1) : val[k] \notin EscChars
         IN  sqlEscapeLoop(val, m,
                 escaped \o SubSeq(val, chunk + 1, m - 1) \o EscMap(val[m]))
    ELSE [chunk |-> chunk, escaped |-> escaped]

\* sqlEscapeReturn with the defect of returning escaped alone: the text
\* after the last match is lost
sqlEscapeNoTail(val, r) ==
    IF r.chunk = 0 THEN val ELSE r.escaped

\* the three returns after the loop; r is what the loop left in chunk and
\* escaped
sqlEscapeReturn(val, r) ==
    IF r.chunk = 0 THEN val
    ELSE IF r.chunk < Len(val)
    THEN r.escaped \o SubSeq(val, r.chunk + 1, Len(val))
    ELSE r.escaped

sqlEscape(val) == sqlEscapeReturn(val, sqlEscapeLoop(val, 0, <<>>))

-----------------------------------------------------------------------------
(* quote *)

\* quote with the defect of leaving a string without its quotes
quoteBare(val, force_quote) ==
    CASE typeof(val) = "bool" -> IF val.b THEN <<"1">> ELSE <<"0">>
      [] typeof(val) = "number" ->
            IF force_quote THEN <<"'">> \o NumStr(val.n) \o <<"'">>
            ELSE NumStr(val.n)
      [] typeof(val) = "object" ->
            IF val = VNull THEN <<"N","U","L","L">> ELSE <<>>
      [] OTHER -> sqlEscape(String(val))

quote(val, force_quote) ==
    CASE typeof(val) = "bool" -> IF val.b THEN <<"1">> ELSE <<"0">>
      [] typeof(val) = "number" ->
            IF force_quote THEN <<"'">> \o NumStr(val.n) \o <<"'">>
            ELSE NumStr(val.n)
      [] typeof(val) = "object" ->
            IF val = VNull THEN <<"N","U","L","L">> ELSE <<>>
      [] OTHER -> <<"'">> \o sqlEscape(String(val)) \o <<"'">>

-----------------------------------------------------------------------------
(* identifier *)

\* one word of a matched table.column pair
identifierWord(w) ==
    IF w = <<"*">> THEN w ELSE <<"BQ">> \o sqlEscape(w) \o <<"BQ">>

\* the text head followed by the rest of a replace; rest is [s, modified]
replaced(head, modified, rest) ==
    [s |-> head \o rest.s, modified |-> modified \/ rest.modified]

RECURSIVE identifierDotted(_, _, _)

\* the callback of the first replace on the match s[i..f], whose words are
\* s[i..e] and s[e+2..f]
identifierPair(s, i, e, f, sql_identifiers) ==
    IF \A k \in 1..Len(sql_identifiers) : sql_identifiers[k] # SubSeq(s, i, e)
    THEN replaced(SubSeq(s, i, f), FALSE,
                  identifierDotted(s, f + 1, sql_identifiers))
    ELSE replaced(identifierWord(SubSeq(s, i, e)) \o <<".">>
                      \o identifierWord(SubSeq(s, e + 2, f)),
                  TRUE, identifierDotted(s, f + 1, sql_identifiers))

\* a run of word characters s[i..e]: a match when a dot and a character of
\* [a-zA-Z_0-9*] follow it
identifierRun(s, i, e, sql_identifiers) ==
    IF e + 2 <= Len(s) /\ s[e + 1] = "." /\ s[e + 2] \in WordChars \cup {"*"}
    THEN identifierPair(s, i, e, RunEnd(s, e + 2, WordChars \cup {"*"}),
                        sql_identifiers)
    ELSE replaced(SubSeq(s, i, e), FALSE,
                  identifierDotted(s, e + 1, sql_identifiers))

\* the first replace: every match of [a-zA-Z_0-9]+\.[a-zA-Z_0-9*]+ from
\* index i on, left to right; returns the new text and the modified flag
identifierDotted(s, i, sql_identifiers) ==
    IF i > Len(s) THEN [s |-> <<>>, modified |-> FALSE]
    ELSE IF s[i] \notin WordChars
    THEN replaced(<<s[i]>>, FALSE, identifierDotted(s, i + 1, sql_identifiers))
    ELSE identifierRun(s, i, RunEnd(s, i, WordChars), sql_identifiers)

RECURSIVE identifierAs(_, _)

\* the callback of the second replace on the match s[i..f]
identifierAlias(s, i, f) ==
    replaced(<<"A","S"," ","BQ">> \o sqlEscape(SubSeq(s, i + 3, f)) \o <<"BQ">>, TRUE,
             identifierAs(s, f + 1))

\* the second replace: every match of (as|AS) ([a-zA-Z0-9_]+)
identifierAs(s, i) ==
    IF i > Len(s) THEN [s |-> <<>>, modified |-> FALSE]
    ELSE IF /\ i + 3 <= Len(s)
            /\ \/ s[i] = "a" /\ s[i + 1] = "s"
               \/ s[i] = "A" /\ s[i + 1] = "S"
            /\ s[i + 2] = " "
            /\ s[i + 3] \in WordChars
    THEN identifierAlias(s, i, RunEnd(s, i + 3, WordChars))
    ELSE replaced(<<s[i]>>, FALSE, identifierAs(s, i + 1))

\* the force-quote fallback and the return; r1 and r2 are the outcomes of
\* the first and of the second replace
identifierReturn(r1, r2, force_quote) ==
    IF /\ ~(r1.modified \/ r2.modified)
       /\ force_quote
       /\ \A k \in 1..Len(r2.s) : r2.s[k] # " "
    THEN <<"BQ">> \o sqlEscape(r2.s) \o <<"BQ">>
    ELSE r2.s

\* the second replace, made on the text r1.s the first one left
identifierSecond(r1, force_quote) ==
    identifierReturn(r1, identifierAs(r1.s, 1), force_quote)

identifier(sql_identifiers, val, force_quote) ==
    identifierSecond(identifierDotted(String(val), 1, sql_identifiers),
                     force_quote)

-----------------------------------------------------------------------------
(* The parameter store.  sql_params is a JavaScript array: pos holds its   *)
(* elements 0..length-1 and named its other own properties, a sequence of  *)
(* [name, val] pairs in insertion order.  The operator                     *)
(* `key in sql_params` is true of an index below length, of an own         *)
(* property, and of "length", which every array has.                       *)

paramIsIndex(sql_params, key) ==
    \E i \in 1..Len(sql_params.pos) : key = NumStr(i - 1)

paramIsNamed(sql_params, key) ==
    \E i \in 1..Len(sql_params.named) : sql_params.named[i].name = key

paramIn(sql_params, key) ==
    \/ paramIsIndex(sql_params, key)
    \/ paramIsNamed(sql_params, key)
    \/ key = <<"l","e","n","g","t","h">>

paramGet(sql_params, key) ==
    IF paramIsIndex(sql_params, key)
    THEN sql_params.pos[CHOOSE i \in 1..Len(sql_params.pos) :
                            key = NumStr(i - 1)]
    ELSE IF paramIsNamed(sql_params, key)
    THEN sql_params.named[CHOOSE i \in 1..Len(sql_params.named) :
                              sql_params.named[i].name = key].val
    ELSE VNum(Len(sql_params.pos))

-----------------------------------------------------------------------------
(* identifierOrQuote *)

\* a ?:name starts at index i of s
namedAt(s, i) == s[i] = "?" /\ s[i + 1] = ":" /\ s[i + 2] \in WordChars

\* String(val).match(/\?\:([a-zA-Z_0-9]+)/g)[0].replace('?:', ''): the name
\* of the first ?:name in s, or the empty text when match returns null
namedMatch(s) ==
    IF \E i \in 1..(Len(s) - 2) : namedAt(s, i)
    THEN LET i == CHOOSE i \in 1..(Len(s) - 2) :
                      namedAt(s, i) /\ \A j \in 1..(i - 1) : ~namedAt(s, j)
         IN  SubSeq(s, i + 2, RunEnd(s, i + 2, WordChars))
    ELSE <<>>

\* Every method below takes the builder as self and returns a record with
\* the builder after the call (this) and the value returned (ret).  The
\* fields resolved and clause of the builder are history: resolved lists,
\* for the build in progress, the clause and the parameter index of every
\* positional placeholder that was substituted.

\* the "Is named param?" step and the final return; name is the matched
\* name, or the empty text
identifierOrQuoteNamed(self, val, force_quote, name) ==
    IF name # <<>> /\ paramIn(self.sql_params, name)
    THEN [this |-> self,
          ret |-> quote(paramGet(self.sql_params, name), force_quote)]
    ELSE [this |-> self,
          ret |-> identifier(self.sql_identifiers, val, force_quote)]

\* identifierOrQuote with the defect of leaving sql_param_counter where it
\* was after a substitution
identifierOrQuoteStuck(self, val, force_quote) ==
    IF typeof(val) = "bool"
    THEN [this |-> self, ret |-> IF val.b THEN <<"1">> ELSE <<"0">>]
    ELSE IF typeof(val) = "number"
    THEN [this |-> self,
          ret |-> IF force_quote THEN <<"'">> \o NumStr(val.n) \o <<"'">>
                  ELSE NumStr(val.n)]
    ELSE IF typeof(val) = "object" /\ val.t = "null"
    THEN [this |-> self, ret |-> <<"N","U","L","L">>]
    ELSE IF /\ typeof(val) = "string"
            /\ val.s = <<"?">>
            /\ paramIn(self.sql_params, NumStr(self.sql_param_counter))
    THEN [this |-> [self EXCEPT
                      !.resolved = Append(@, [clause |-> self.clause,
                                              param |-> self.sql_param_counter])],
          ret |-> quote(paramGet(self.sql_params,
                                 NumStr(self.sql_param_counter)), force_quote)]
    ELSE identifierOrQuoteNamed(self, val, force_quote,
                                namedMatch(String(val)))

\* identifierOrQuote with the defect of substituting every `?` without
\* looking for `sql_param_counter in sql_params`: past the end the value is
\* undefined, which quote gives as 'undefined'
identifierOrQuoteUnchecked(self, val, force_quote) ==
    IF typeof(val) = "bool"
    THEN [this |-> self, ret |-> IF val.b THEN <<"1">> ELSE <<"0">>]
    ELSE IF typeof(val) = "number"
    THEN [this |-> self,
          ret |-> IF force_quote THEN <<"'">> \o NumStr(val.n) \o <<"'">>
                  ELSE NumStr(val.n)]
    ELSE IF typeof(val) = "object" /\ val.t = "null"
    THEN [this |-> self, ret |-> <<"N","U","L","L">>]
    ELSE IF typeof(val) = "string" /\ val.s = <<"?">>
    THEN [this |-> [self EXCEPT
                      !.sql_param_counter = @ + 1,
                      !.resolved = Append(@, [clause |-> self.clause,
                                              param |-> self.sql_param_counter])],
          ret |-> IF paramIsIndex(self.sql_params,
                                  NumStr(self.sql_param_counter))
                  THEN quote(paramGet(self.sql_params,
                                      NumStr(self.sql_param_counter)),
                             force_quote)
                  ELSE <<"'","u","n","d","e","f","i","n","e","d","'">>]
    ELSE identifierOrQuoteNamed(self, val, force_quote,
                                namedMatch(String(val)))

identifierOrQuote(self, val, force_quote) ==
    IF typeof(val) = "bool"
    THEN [this |-> self, ret |-> IF val.b THEN <<"1">> ELSE <<"0">>]
    ELSE IF typeof(val) = "number"
    THEN [this |-> self,
          ret |-> IF force_quote THEN <<"'">> \o NumStr(val.n) \o <<"'">>
                  ELSE NumStr(val.n)]
    ELSE IF typeof(val) = "object" /\ val.t = "null"
    THEN [this |-> self, ret |-> <<"N","U","L","L">>]
    ELSE IF /\ typeof(val) = "string"
            /\ val.s = <<"?">>
            /\ paramIn(self.sql_params, NumStr(self.sql_param_counter))
    THEN [this |-> [self EXCEPT
                      !.sql_param_counter = @ + 1,
                      !.resolved = Append(@, [clause |-> self.clause,
                                              param |-> self.sql_param_counter])],
          ret |-> quote(paramGet(self.sql_params,
                                 NumStr(self.sql_param_counter)), force_quote)]
    ELSE identifierOrQuoteNamed(self, val, force_quote,
                                namedMatch(String(val)))
-----------------------------------------------------------------------------
(* processCondition *)

\* the two-operand cases of the switch
TwoOperand == {"=", "<=", ">=", "<", ">", "!=", "<>", "is", "is not"}

\* the text each two-operand case puts between the operands
OperatorText(op) ==
    CASE op = "=" -> <<" ","="," ">>
      [] op = "<=" -> <<" ","<","="," ">>
      [] op = ">=" -> <<" ",">","="," ">>
      [] op = "<" -> <<" ","<"," ">>
      [] op = ">" -> <<" ",">"," ">>
      [] op = "!=" -> <<" ","!","="," ">>
      [] op = "<>" -> <<" ","!","="," ">>
      [] op = "is" -> <<" ","I","S"," ">>
      [] op = "is not" -> <<" ","I","S"," ","N","O","T"," ">>

\* the list of r with the text of the call x, made after it, pushed
pushed(r, x) == [this |-> x.this, ret |-> Append(r.ret, x.ret)]

RECURSIVE resolveEach(_, _, _)
\* the for..in loops of between / in / not in: identifierOrQuote on each
\* token of vals in order, pushed to the list acc.ret
resolveEach(acc, vals, force_quote) ==
    IF Len(vals) = 0 THEN acc
    ELSE resolveEach(pushed(acc, identifierOrQuote(acc.this, Head(vals),
                                                   force_quote)),
                     Tail(vals), force_quote)

\* the elements a for..in loop over condition[2] visits
elementsOf(val) == IF val.t = "arr" THEN val.a ELSE <<>>

\* what the loop variable holds: `for (let val in condition[2])` of between
\* gives the keys, condition[2][i] of in / not in the elements
loopTokens(op, val) ==
    IF op = "between"
    THEN [i \in 1..Len(elementsOf(val)) |-> VStr(NumStr(i - 1))]
    ELSE elementsOf(val)

\* the template literal of a case that resolves condition[0] only; col is
\* identifierOrQuote(condition[0]) and vals the list the loop filled
columnText(op, col, vals, val) ==
    CASE op = "between" -> col \o <<" ","B","E","T","W","E","E","N"," ">> \o join(vals, <<" ","A","N","D"," ">>)
      [] op = "in" -> col \o <<" ","I","N"," ","(">> \o join(vals, <<",">>) \o <<")">>
      [] op = "not in" -> col \o <<" ","N","O","T"," ","I","N"," ","(">> \o join(vals, <<",">>) \o <<")">>
      [] op = "contains" ->
            col \o <<" ","L","I","K","E"," ","'","%">> \o sqlEscape(String(val)) \o <<"%","'">>
      [] op = "begins" ->
            col \o <<" ","L","I","K","E"," ","'">> \o sqlEscape(String(val)) \o <<"%","'">>
      [] op = "ends" ->
            col \o <<" ","L","I","K","E"," ","'","%">> \o sqlEscape(String(val)) \o <<"'">>
      [] op = "in set" ->
            <<"F","I","N","D","_","I","N","_","S","E","T","(">> \o col \o <<","," ">> \o quote(val, FALSE) \o <<")">>

\* a two-operand case: v is identifierOrQuote(condition[2]), called after
\* col
operandText(op, col, v) ==
    [this |-> v.this, err |-> "", ret |-> col.ret \o OperatorText(op) \o v.ret]

\* conditionText with the defect of resolving the value of contains, begins
\* and ends as the value of a comparison is resolved
conditionTextResolving(condition, vs, col) ==
    IF condition.op \in TwoOperand
    THEN operandText(condition.op, col,
                     identifierOrQuote(col.this, condition.val, FALSE))
    ELSE IF condition.op \in {"contains", "begins", "ends"}
    THEN LET v == identifierOrQuote(col.this, condition.val, FALSE)
         IN  [this |-> v.this, err |-> "",
              ret |-> columnText(condition.op, col.ret, vs.ret, VStr(v.ret))]
    ELSE [this |-> col.this, err |-> "",
          ret |-> columnText(condition.op, col.ret, vs.ret, condition.val)]

\* the return of a case, from the resolved condition[0] on
conditionText(condition, vs, col) ==
    IF condition.op \in TwoOperand
    THEN operandText(condition.op, col,
                     identifierOrQuote(col.this, condition.val, FALSE))
    ELSE [this |-> col.this, err |-> "",
          ret |-> columnText(condition.op, col.ret, vs.ret, condition.val)]

\* vs is what the loop of between / in / not in left (no loop: the builder
\* as it was and no values)
conditionColumn(condition, vs) ==
    conditionText(condition, vs,
                  identifierOrQuote(vs.this, condition.col, FALSE))

\* processCondition with the defect of a default case that returns null
\* instead of throwing
processConditionNoThrow(self, condition) ==
    IF condition.op \in {"between", "in", "not in"}
    THEN IF typeof(condition.val) # "object"
         THEN [this |-> self, err |-> "", ret |-> <<>>]
         ELSE conditionColumn(condition,
                  resolveEach([this |-> self, ret |-> <<>>],
                              loopTokens(condition.op, condition.val),
                              condition.op # "between"))
    ELSE IF condition.op \in
                TwoOperand \cup {"contains", "begins", "ends", "in set"}
    THEN conditionColumn(condition, [this |-> self, ret |-> <<>>])
    ELSE [this |-> self, err |-> "", ret |-> <<>>]

\* a leaf is [k |-> "leaf", col, op, val].  ret is the text returned (the
\* empty text stands for the null return: every caller joins it into a list,
\* where null gives the empty string); err is the message thrown, or ""
processCondition(self, condition) ==
    IF condition.op \in {"between", "in", "not in"}
    THEN IF typeof(condition.val) # "object"
         THEN [this |-> self, err |-> "", ret |-> <<>>]
         ELSE conditionColumn(condition,
                  resolveEach([this |-> self, ret |-> <<>>],
                              loopTokens(condition.op, condition.val),
                              condition.op # "between"))
    ELSE IF condition.op \in
                TwoOperand \cup {"contains", "begins", "ends", "in set"}
    THEN conditionColumn(condition, [this |-> self, ret |-> <<>>])
    ELSE [this |-> self, err |-> "Condition: Unknown clause", ret |-> <<>>]

-----------------------------------------------------------------------------
(* processConditions *)

\* the key of a group object after the "Uppercase key" step
UppercaseKey(key) ==
    IF key = "and" THEN "AND" ELSE IF key = "or" THEN "OR" ELSE key

RECURSIVE processConditions(_, _)

\* the push of a leaf: r is what processCondition returned
processLeaf(item, r) ==
    [this |-> r.this, ret |-> <<r.ret>>, item |-> item, err |-> r.err]

\* processGroup with the defect of pushing the joined texts without the
\* parentheses
processGroupBare(item, key, conds) ==
    [this |-> conds.this,
     ret |-> <<join(conds.ret, IF key = "OR" THEN <<" ","O","R"," ">> ELSE <<" ","A","N","D"," ">>)>>,
     item |-> [item EXCEPT !.key = key, !.items = conds.conditions],
     err |-> conds.err]

\* the push of a group whose key is now key: conds is what the nested call
\* returned, joined by ' OR ' under the key OR and by ' AND ' otherwise
processGroup(item, key, conds) ==
    [this |-> conds.this,
     ret |-> << <<"(">>
                \o join(conds.ret, IF key = "OR" THEN <<" ","O","R"," ">> ELSE <<" ","A","N","D"," ">>)
                \o <<")">> >>,
     item |-> [item EXCEPT !.key = key, !.items = conds.conditions],
     err |-> conds.err]

\* one turn of the for loop.  An item of a condition list is a leaf, a
\* group [k |-> "group", key, items] (an object whose one key is key), a raw
\* string [k |-> "raw", s] or anything else [k |-> "other"].  The nested
\* call is made under the keys AND and OR only: under another key
\* conditions[i][combine] is undefined and the nested loop does not run.
processItem(self, item) ==
    IF item.k = "leaf"
    THEN processLeaf(item, processCondition(self, item))
    ELSE IF item.k = "group"
    THEN processGroup(item, UppercaseKey(item.key),
             IF UppercaseKey(item.key) \in {"AND", "OR"}
             THEN processConditions(self, item.items)
             ELSE [this |-> self, ret |-> <<>>, conditions |-> item.items,
                   err |-> ""])
    ELSE IF item.k = "raw"
    THEN [this |-> self, ret |-> <<item.s>>, item |-> item, err |-> ""]
    ELSE [this |-> self, ret |-> <<>>, item |-> item, err |-> ""]

\* the list after the turn first and the turns rest
processed(first, rest) ==
    [this |-> rest.this, ret |-> first.ret \o rest.ret,
     conditions |-> <<first.item>> \o rest.conditions, err |-> rest.err]

\* the turns after first, none when first threw
processRest(first, conditions) ==
    IF first.err # ""
    THEN [this |-> first.this, ret |-> <<>>,
          conditions |-> <<first.item>> \o Tail(conditions),
          err |-> first.err]
    ELSE processed(first, processConditions(first.this, Tail(conditions)))

\* Returns the builder, the list of texts, the condition list as the call
\* leaves it (the key of a group is rewritten in place) and the message
\* thrown, or "".
processConditions(self, conditions) ==
    IF Len(conditions) = 0
    THEN [this |-> self, ret |-> <<>>, conditions |-> <<>>, err |-> ""]
    ELSE processRest(processItem(self, Head(conditions)), conditions)

-----------------------------------------------------------------------------
(* processColumns, processValues, table *)

LowerChars ==
    <<"a", "b", "c", "d", "e", "f", "g", "h", "i", "j", "k", "l", "m",
      "n", "o", "p", "q", "r", "s", "t", "u", "v", "w", "x", "y", "z">>

UpperChars ==
    <<"A", "B", "C", "D", "E", "F", "G", "H", "I", "J", "K", "L", "M",
      "N", "O", "P", "Q", "R", "S", "T", "U", "V", "W", "X", "Y", "Z">>

\* String.prototype.toUpperCase
toUpperCase(s) ==
    [i \in 1..Len(s) |->
        IF \E k \in 1..26 : LowerChars[k] = s[i]
        THEN UpperChars[CHOOSE k \in 1..26 : LowerChars[k] = s[i]]
        ELSE s[i]]

\* r with its text as a list of one
listed(r) == [this |-> r.this, ret |-> <<r.ret>>]

\* the list of first followed by the list of rest
listedBefore(first, rest) ==
    [this |-> rest.this, ret |-> first.ret \o rest.ret]

\* one turn of the for loop of processColumns.  An element of columns is a
\* value, or an object with one key [t |-> "obj", col, dir] (as
\* {'user.id': 'desc'}).
processColumn(self, c) ==
    IF typeof(c) = "object"
    THEN IF c.t = "obj" /\ toUpperCase(c.dir) \in {<<"A","S","C">>, <<"D","E","S","C">>}
         THEN [this |-> self,
               ret |-> << identifier(self.sql_identifiers, VStr(c.col), TRUE)
                          \o <<" ">> \o toUpperCase(c.dir) >>]
         ELSE [this |-> self, ret |-> <<>>]
    ELSE listed(identifierOrQuote(self, c, TRUE))

RECURSIVE processColumns(_, _)

processColumnsRest(first, columns) ==
    listedBefore(first, processColumns(first.this, Tail(columns)))

processColumns(self, columns) ==
    IF Len(columns) = 0 THEN [this |-> self, ret |-> <<>>]
    ELSE processColumnsRest(processColumn(self, Head(columns)), columns)

\* the [key, val] pair pushed for one key; v is identifierOrQuote(val)
processValue(key, v) ==
    [this |-> v.this, ret |-> <<[key |-> key, val |-> v.ret]>>]

RECURSIVE processValues(_, _)

processValuesRest(first, columns) ==
    listedBefore(first, processValues(first.this, Tail(columns)))

\* columns is an object, here the sequence of its [name, val] pairs in
\* insertion order; ret is the list of [key, val] texts.
processValues(self, columns) ==
    IF Len(columns) = 0 THEN [this |-> self, ret |-> <<>>]
    ELSE processValuesRest(
             processValue(identifier(self.sql_identifiers,
                                     VStr(Head(columns).name), TRUE),
                          identifierOrQuote(self, Head(columns).val, FALSE)),
             columns)

\* the return of table, the names pushed to sql_identifiers: payload is a
\* name (a text) or an object {name: alias}, here a record [name, alias];
\* the quoted result has the same shape
tableReturn(self, payload) ==
    [this |-> self,
     ret |-> IF "alias" \notin DOMAIN payload
             THEN [name |-> identifier(self.sql_identifiers,
                                       VStr(payload.name), TRUE)]
             ELSE [name |-> identifier(self.sql_identifiers,
                                       VStr(payload.name), TRUE),
                   alias |-> identifier(self.sql_identifiers,
                                        VStr(payload.alias), TRUE)]]

\* table with the defect of pushing the name alone, never the alias
tableNoAlias(self, payload) ==
    tableReturn([self EXCEPT !.sql_identifiers = Append(@, payload.name)],
                payload)

table(self, payload) ==
    tableReturn([self EXCEPT !.sql_identifiers =
                     IF "alias" \notin DOMAIN payload
                     THEN Append(@, payload.name)
                     ELSE Append(Append(@, payload.name), payload.alias)],
                payload)

\* `${table}${alias ? ` AS ${alias}` : ''}` after the typeof table == 'object'
\* switch of buildSelect, buildUpdate, buildDelete and buildJoin
tableAs(t) ==
    IF "alias" \in DOMAIN t /\ t.alias # <<>>
    THEN t.name \o <<" ","A","S"," ">> \o t.alias
    ELSE t.name

-----------------------------------------------------------------------------
(* the constructor and the chainable methods; err is the message thrown *)

constructor ==
    [sql_select |-> <<>>, sql_insert |-> <<>>, sql_update |-> <<>>,
     sql_delete |-> <<>>, sql_where |-> <<>>, sql_joins |-> <<>>,
     sql_having |-> <<>>, sql_group |-> <<>>, sql_order |-> <<>>,
     sql_limit |-> <<>>, sql_mode |-> "null",
     sql_params |-> [pos |-> <<>>, named |-> <<>>],
     sql_identifiers |-> <<>>, sql_param_counter |-> 0,
     resolved |-> <<>>, clause |-> "none"]

\* statement with the defect of starting over: the WHERE list stored so far
\* is dropped
statementClearing(t, sql_mode, field, rest) ==
    [this |-> [t.this EXCEPT !.sql_mode = sql_mode,
                             ![field] = [rest EXCEPT !.table = t.ret],
                             !.sql_where = <<>>],
     err |-> ""]

\* the assignments of select, insert, delete and update: t is what
\* this.table(payload.table) returned and rest the object stored, its table
\* still to be set
statement(t, sql_mode, field, rest) ==
    [this |-> [t.this EXCEPT !.sql_mode = sql_mode,
                             ![field] = [rest EXCEPT !.table = t.ret]],
     err |-> ""]

select(self, payload) ==
    IF "table" \notin DOMAIN payload
    THEN [this |-> self, err |-> "Select: Missing table"]
    ELSE IF "columns" \notin DOMAIN payload
    THEN [this |-> self, err |-> "Select: Missing columns"]
    ELSE statement(table(self, payload.table), "select", "sql_select",
                   [table |-> <<>>, columns |-> payload.columns])

insert(self, payload) ==
    IF "table" \notin DOMAIN payload
    THEN [this |-> self, err |-> "Insert: Missing table"]
    ELSE IF "columns" \notin DOMAIN payload
    THEN [this |-> self, err |-> "Insert: Missing columns"]
    ELSE statement(table(self, payload.table), "insert", "sql_insert",
                   [table |-> <<>>, columns |-> payload.columns,
                    duplicates |-> IF "duplicates" \in DOMAIN payload
                                   THEN payload.duplicates ELSE <<>>])

delete(self, payload) ==
    IF "table" \notin DOMAIN payload
    THEN [this |-> self, err |-> "Delete: Missing table"]
    ELSE statement(table(self, payload.table), "delete", "sql_delete",
                   [table |-> <<>>])

update(self, payload) ==
    IF "table" \notin DOMAIN payload
    THEN [this |-> self, err |-> "Update: Missing table"]
    ELSE IF "columns" \notin DOMAIN payload
    THEN [this |-> self, err |-> "Update: Missing columns"]
    ELSE statement(table(self, payload.table), "update", "sql_update",
                   [table |-> <<>>, columns |-> payload.columns])

\* this.sql_joins.push of the join j; t is what this.table(j.table) returned
joinsPush(t, j) ==
    [t.this EXCEPT !.sql_joins =
        Append(@, [type |-> j.type, table |-> t.ret,
                   conditions |-> j.conditions])]

RECURSIVE joins(_, _)
joins(self, payload) ==
    IF Len(payload) = 0 THEN [this |-> self, err |-> ""]
    ELSE IF "type" \notin DOMAIN Head(payload)
    THEN [this |-> self, err |-> "Joins: Missing type"]
    ELSE IF "table" \notin DOMAIN Head(payload)
    THEN [this |-> self, err |-> "Joins: Missing table"]
    ELSE IF "conditions" \notin DOMAIN Head(payload)
    THEN [this |-> self, err |-> "Joins: Missing conditions"]
    ELSE joins(joinsPush(table(self, Head(payload).table), Head(payload)),
               Tail(payload))

order(self, payload) == [self EXCEPT !.sql_order = @ \o payload]

group(self, payload) == [self EXCEPT !.sql_group = @ \o payload]

where(self, payload) == [self EXCEPT !.sql_where = @ \o payload]

having(self, payload) == [self EXCEPT !.sql_having = @ \o payload]

RECURSIVE parseDigits(_, _)
\* the number that the first e characters of s, all digits, spell
parseDigits(s, e) ==
    IF e = 0 THEN 0
    ELSE 10 * parseDigits(s, e - 1)
         + (CHOOSE k \in 1..10 : Digits[k] = s[e]) - 1

\* parseInt of a number, or of a text; -1 stands for NaN
parseInt(val) ==
    IF val.t = "num" THEN val.n
    ELSE IF /\ val.t = "str"
            /\ Len(val.s) > 0
            /\ val.s[1] \in {Digits[k] : k \in 1..10}
    THEN parseDigits(val.s, RunEnd(val.s, 1, {Digits[k] : k \in 1..10}))
    ELSE -1

\* the assignment of sql_limit; offset and limit are what parseInt gave
limitText(self, offset, lim) ==
    IF offset > 0
    THEN [self EXCEPT !.sql_limit =
             <<"L","I","M","I","T"," ">> \o NumStr(offset) \o <<","," ">> \o NumStr(lim) \o <<"\n">>]
    ELSE IF lim > 0
    THEN [self EXCEPT !.sql_limit = <<"L","I","M","I","T"," ">> \o NumStr(lim) \o <<"\n">>]
    ELSE self

\* `if (isNaN(x)) x = 0`
orZero(n) == IF n = -1 THEN 0 ELSE n

\* val is a number, a string or an array [offset, limit]
limit(self, val) ==
    limitText(self,
              orZero(IF val.t = "arr" /\ Len(val.a) >= 1
                     THEN parseInt(val.a[1]) ELSE 0),
              orZero(IF typeof(val) \in {"number", "string"}
                     THEN parseInt(val)
                     ELSE IF val.t = "arr" /\ Len(val.a) >= 2
                     THEN parseInt(val.a[2])
                     ELSE 0))

RECURSIVE paramsNamed(_, _)
\* the for..in loop of params over an object: each pair replaces the pair
\* of the same name or is added after the others
paramsNamed(named, payload) ==
    IF Len(payload) = 0 THEN named
    ELSE paramsNamed(IF \E i \in 1..Len(named) :
                            named[i].name = Head(payload).name
                     THEN [i \in 1..Len(named) |->
                              IF named[i].name = Head(payload).name
                              THEN Head(payload) ELSE named[i]]
                     ELSE Append(named, Head(payload)),
                     Tail(payload))

\* payload is an array [pos |-> values] or an object [named |-> pairs];
\* the names of an object are neither array indices nor "length"
params(self, payload) ==
    IF "pos" \in DOMAIN payload
    THEN [self EXCEPT !.sql_params.pos =
             [i \in 1..(IF Len(payload.pos) > Len(@) THEN Len(payload.pos)
                        ELSE Len(@))
                 |-> IF i <= Len(payload.pos) THEN payload.pos[i] ELSE @[i]]]
    ELSE [self EXCEPT !.sql_params.named = paramsNamed(@, payload.named)]

-----------------------------------------------------------------------------
(* build *)

\* the builder with the history field clause set
at(self, clause) == [self EXCEPT !.clause = clause]

buildSelectReturn(self, columns) ==
    [this |-> columns.this, err |-> "",
     ret |-> <<"S","E","L","E","C","T"," ">> \o join(columns.ret, <<",","\n">>) \o <<"\n">>
             \o <<"F","R","O","M"," ">> \o tableAs(self.sql_select.table) \o <<"\n">>]

buildSelect(self) ==
    buildSelectReturn(self, processColumns(self, self.sql_select.columns))

buildInsertReturn(self, columns) ==
    [this |-> columns.this, err |-> "",
     ret |-> <<"I","N","S","E","R","T"," ","I","N","T","O"," ">>
             \o (IF "alias" \in DOMAIN self.sql_insert.table
                 THEN <<"[","o","b","j","e","c","t"," ","O","b","j","e","c","t","]">>
                 ELSE self.sql_insert.table.name)
             \o <<" ","(">> \o join([i \in 1..Len(columns.ret) |-> columns.ret[i].key], <<","," ">>) \o <<")","\n">>
             \o <<"V","A","L","U","E","S"," ","(">> \o join([i \in 1..Len(columns.ret) |-> columns.ret[i].val], <<","," ">>) \o <<")","\n">>
             \o (IF Len(self.sql_insert.duplicates) > 0
                 THEN <<"O","N"," ","D","U","P","L","I","C","A","T","E"," ","K","E","Y"," ","U","P","D","A","T","E"," ">>
                      \o join(self.sql_insert.duplicates, <<",","\n">>)
                      \o <<"\n">>
                 ELSE <<>>)]

buildInsert(self) ==
    buildInsertReturn(self, processValues(self, self.sql_insert.columns))

buildUpdateReturn(self, joinsText, columns) ==
    [this |-> columns.this, err |-> "",
     ret |-> <<"U","P","D","A","T","E"," ">> \o tableAs(self.sql_update.table) \o <<"\n">>
             \o joinsText \o <<"S","E","T"," ">>
             \o join([i \in 1..Len(columns.ret) |->
                         columns.ret[i].key \o <<" ","="," ">> \o columns.ret[i].val],
                     <<",","\n">>)
             \o <<"\n">>]

buildUpdate(self, joinsText) ==
    buildUpdateReturn(self, joinsText,
                      processValues(self, self.sql_update.columns))

buildDelete(self) ==
    [this |-> self, err |-> "",
     ret |-> <<"D","E","L","E","T","E"," ">>
             \o (IF "alias" \in DOMAIN self.sql_delete.table
                 THEN self.sql_delete.table.alias ELSE <<>>)
             \o <<"\n">> \o <<"F","R","O","M"," ">> \o tableAs(self.sql_delete.table)
             \o <<"\n">>]

\* the conditions processConditions rewrote are the ones the join keeps
buildJoinReturn(jn, i, conditions) ==
    [this |-> [conditions.this EXCEPT
                  !.sql_joins[i].conditions = conditions.conditions],
     err |-> conditions.err,
     ret |-> toUpperCase(jn.type) \o <<" ","J","O","I","N"," ">> \o tableAs(jn.table)
             \o <<"\n">> \o <<"O","N"," ">>
             \o join(conditions.ret, <<"\n","A","N","D"," ">>) \o <<"\n">>]

\* buildJoin on the i-th registered join
buildJoin(self, i) ==
    buildJoinReturn(self.sql_joins[i], i,
                    processConditions(self, self.sql_joins[i].conditions))

buildWhereReturn(conditions) ==
    [this |-> [conditions.this EXCEPT !.sql_where = conditions.conditions],
     err |-> conditions.err,
     ret |-> <<"W","H","E","R","E"," ">> \o join(conditions.ret, <<"\n","A","N","D"," ">>) \o <<"\n">>]

buildWhere(self) == buildWhereReturn(processConditions(self, self.sql_where))

buildHavingReturn(conditions) ==
    [this |-> [conditions.this EXCEPT !.sql_having = conditions.conditions],
     err |-> conditions.err,
     ret |-> <<"H","A","V","I","N","G"," ">> \o join(conditions.ret, <<"\n","A","N","D"," ">>) \o <<"\n">>]

buildHaving(self) ==
    buildHavingReturn(processConditions(self, self.sql_having))

buildGroupReturn(columns) ==
    [this |-> columns.this, err |-> "",
     ret |-> <<"G","R","O","U","P"," ","B","Y"," ">> \o join(columns.ret, <<",","\n">>) \o <<"\n">>]

buildGroup(self) == buildGroupReturn(processColumns(self, self.sql_group))

buildOrderReturn(columns) ==
    [this |-> columns.this, err |-> "",
     ret |-> <<"O","R","D","E","R"," ","B","Y"," ">> \o join(columns.ret, <<",","\n">>) \o <<"\n">>]

buildOrder(self) == buildOrderReturn(processColumns(self, self.sql_order))

\* `query += r`: the text of q followed by the text of the step r
appended(q, r) == [this |-> r.this, err |-> r.err, ret |-> q.ret \o r.ret]

RECURSIVE buildJoins(_, _)

\* the turns of the loop after the i-th, none when its buildJoin threw
buildJoinsRest(j, i) ==
    IF j.err # "" THEN j ELSE appended(j, buildJoins(j.this, i + 1))

\* the loop `for (let i in this.sql_joins)` of build, from index i on
buildJoins(self, i) ==
    IF i > Len(self.sql_joins) THEN [this |-> self, err |-> "", ret |-> <<>>]
    ELSE buildJoinsRest(buildJoin(self, i), i)

\* the first line of the cases select, insert and delete
buildStatementHead(self) ==
    CASE self.sql_mode = "select" -> buildSelect(self)
      [] self.sql_mode = "insert" -> buildInsert(self)
      [] self.sql_mode = "delete" -> buildDelete(self)

\* the loop over the joins that follows it
buildStatementJoins(q) == appended(q, buildJoins(at(q.this, "join"), 1))

\* the case update: j is what the loop over the joins, which comes first,
\* returned
buildStatementUpdate(j) ==
    IF j.err # "" THEN j ELSE buildUpdate(at(j.this, "stmt"), j.ret)

\* the switch of build
buildStatement(self) ==
    IF self.sql_mode \in {"select", "insert", "delete"}
    THEN buildStatementJoins(buildStatementHead(at(self, "stmt")))
    ELSE IF self.sql_mode = "update"
    THEN buildStatementUpdate(buildJoins(at(self, "join"), 1))
    ELSE [this |-> self, err |-> "Unknown query type", ret |-> <<>>]

\* the lines after the switch; each runs unless an earlier step threw
buildWhereStep(q) ==
    IF q.err # "" \/ Len(q.this.sql_where) = 0 THEN q
    ELSE appended(q, buildWhere(at(q.this, "where")))

buildHavingStep(q) ==
    IF q.err # "" \/ Len(q.this.sql_having) = 0 THEN q
    ELSE appended(q, buildHaving(at(q.this, "having")))

buildGroupStep(q) ==
    IF q.err # "" \/ Len(q.this.sql_group) = 0 THEN q
    ELSE appended(q, buildGroup(at(q.this, "group")))

buildOrderStep(q) ==
    IF q.err # "" \/ Len(q.this.sql_order) = 0 THEN q
    ELSE appended(q, buildOrder(at(q.this, "order")))

\* `query += this.sql_limit` and the return
buildReturn(q) ==
    [this |-> at(q.this, "none"), err |-> q.err,
     ret |-> IF q.err # "" THEN <<>> ELSE q.ret \o q.this.sql_limit]

\* build with the defect of starting every call at parameter 0
buildFromZero(self) ==
    buildReturn(buildOrderStep(buildGroupStep(buildHavingStep(buildWhereStep(
        buildStatement([self EXCEPT !.resolved = <<>>,
                                    !.sql_param_counter = 0]))))))

build(self) ==
    buildReturn(buildOrderStep(buildGroupStep(buildHavingStep(buildWhereStep(
        buildStatement([self EXCEPT !.resolved = <<>>]))))))

-----------------------------------------------------------------------------
(* fromJson *)

\* the keys fromJson looks for, in the order of its if statements
JsonKeys ==
    <<"select", "insert", "update", "delete", "joins", "where", "having",
      "order", "group", "limit", "params">>

\* `sql.key(payload[key])`
jsonCall(self, key, val) ==
    CASE key = "select" -> select(self, val)
      [] key = "insert" -> insert(self, val)
      [] key = "update" -> update(self, val)
      [] key = "delete" -> delete(self, val)
      [] key = "joins" -> joins(self, val)
      [] key = "where" -> [this |-> where(self, val), err |-> ""]
      [] key = "having" -> [this |-> having(self, val), err |-> ""]
      [] key = "order" -> [this |-> order(self, val), err |-> ""]
      [] key = "group" -> [this |-> group(self, val), err |-> ""]
      [] key = "limit" -> [this |-> limit(self, val), err |-> ""]
      [] key = "params" -> [this |-> params(self, val), err |-> ""]

RECURSIVE jsonSteps(_, _, _)
\* the if statements for the keys from the i-th on; sql is the builder so
\* far, and no statement runs after one that threw
jsonSteps(sql, payload, i) ==
    IF i > Len(JsonKeys) \/ sql.err # "" THEN sql
    ELSE IF JsonKeys[i] \notin DOMAIN payload
    THEN jsonSteps(sql, payload, i + 1)
    ELSE jsonSteps(jsonCall(sql.this, JsonKeys[i], payload[JsonKeys[i]]),
                   payload, i + 1)

\* `return sql.build()`
jsonBuild(sql) ==
    IF sql.err # "" THEN [this |-> sql.this, err |-> sql.err, ret |-> <<>>]
    ELSE build(sql.this)

fromJson(payload) ==
    jsonBuild(jsonSteps([this |-> constructor, err |-> ""], payload, 1))

-----------------------------------------------------------------------------
(* Bounds and the payloads the callers pass *)

\* calls made on one builder, build included
MaxCalls == 4

\* length of the texts given to sqlEscape
MaxEscLen == 3

Leaf(col, op, val) == [k |-> "leaf", col |-> VStr(col), op |-> op, val |-> val]

Group(key, items) == [k |-> "group", key |-> key, items |-> items]

\* {'users': 'user'}
UsersAsUser == [name |-> <<"u","s","e","r","s">>, alias |-> <<"u","s","e","r">>]

\* an object without keys
NoKeys == [k \in {} |-> 0]

\* the object with the keys of a and of b
Merge(a, b) ==
    [k \in DOMAIN a \cup DOMAIN b |-> IF k \in DOMAIN a THEN a[k] ELSE b[k]]

SelectUser == [table |-> UsersAsUser, columns |-> <<VStr(<<"u","s","e","r",".","*">>)>>]

SelectUsers ==
    [table |-> [name |-> <<"u","s","e","r","s">>],
     columns |-> <<VStr(<<"?">>), VStr(<<"u","s","e","r","s",".","i","d">>)>>]

InsertUsers ==
    [table |-> [name |-> <<"u","s","e","r","s">>],
     columns |-> <<[name |-> <<"f","i","r","s","t","_","n","a","m","e">>, val |-> VStr(<<"?">>)],
                   [name |-> <<"a","g","e">>, val |-> VStr(<<"?">>)]>>]

UpdateUser ==
    [table |-> UsersAsUser,
     columns |-> <<[name |-> <<"a","g","e">>, val |-> VStr(<<"?">>)]>>]

DeleteUser == [table |-> UsersAsUser]

JoinOrders ==
    <<[type |-> <<"l","e","f","t">>,
       table |-> [name |-> <<"o","r","d","e","r","s">>, alias |-> <<"o","r","d","e","r">>],
       conditions |-> <<Leaf(<<"o","r","d","e","r",".","u","s","e","r","_","i","d">>, "=", VStr(<<"u","s","e","r",".","i","d">>)),
                        Leaf(<<"o","r","d","e","r",".","s","t","a","t","u","s">>, "=", VStr(<<"?">>))>>]>>

JoinXor ==
    <<[type |-> <<"i","n","n","e","r">>,
       table |-> [name |-> <<"i","t","e","m","s">>],
       conditions |-> <<Leaf(<<"i","t","e","m","s",".","i","d">>, "=", VNum(1)),
                        Group("or", <<Leaf(<<"i","t","e","m","s",".","a">>, "xor", VNum(2))>>)>>]>>

\* the where example of the README
WhereReadme ==
    <<Leaf(<<"u","s","e","r",".","a","c","t","i","v","e">>, "=", VBool(TRUE)),
      Group("or", <<Leaf(<<"u","s","e","r",".","f","i","r","s","t","_","n","a","m","e">>, "=", VStr(<<"?">>)),
                    Leaf(<<"u","s","e","r",".","l","a","s","t","_","n","a","m","e">>, "=", VStr(<<"?">>))>>)>>

WhereBetween ==
    <<Leaf(<<"u","s","e","r",".","a","g","e">>, "between", VArr(<<VStr(<<"?">>), VStr(<<"?">>)>>))>>

WhereIn ==
    <<Leaf(<<"u","s","e","r",".","n","i","c","k","n","a","m","e">>, "in",
           VArr(<<VStr(<<"?">>), VStr(<<"?">>), VStr(<<"?">>)>>))>>

WhereNotIn ==
    <<Leaf(<<"u","s","e","r",".","n","i","c","k","n","a","m","e">>, "not in", VArr(<<VStr(<<"?">>), VStr(<<"?">>)>>))>>

\* the key-value example of the README
WhereNamed ==
    <<Leaf(<<"u","s","e","r",".","f","i","r","s","t","_","n","a","m","e">>, "=", VStr(<<"?",":","n","a","m","e">>)),
      Leaf(<<"u","s","e","r",".","a","g","e">>, "=", VStr(<<"?",":","a","g","e">>)),
      Leaf(<<"u","s","e","r",".","n","i","c","k","n","a","m","e">>, "=", VStr(<<"?",":","n","a","m","e">>))>>

WhereId == <<Leaf(<<"u","s","e","r",".","i","d">>, "=", VStr(<<"?">>))>>

WhereXor ==
    <<Leaf(<<"u","s","e","r",".","a">>, "=", VNum(1)),
      Leaf(<<"u","s","e","r",".","b">>, "xor", VStr(<<"?">>)),
      Leaf(<<"u","s","e","r",".","c">>, "=", VNum(2))>>

WhereXorNested ==
    <<Group("or", <<Leaf(<<"u","s","e","r",".","a">>, "=", VStr(<<"?">>)),
                    Group("AND", <<Leaf(<<"u","s","e","r",".","b">>, "xor", VNum(1))>>)>>)>>

HavingCount == <<Leaf(<<"u","s","e","r",".","c","n","t">>, ">", VStr(<<"?">>))>>

HavingXor ==
    <<Group("and", <<Leaf(<<"u","s","e","r",".","c","n","t">>, "xor", VNum(1)),
                     Leaf(<<"u","s","e","r",".","c","n","t">>, "<", VNum(9))>>)>>

GroupAge == <<VStr(<<"u","s","e","r",".","a","g","e">>), VStr(<<"?">>)>>

OrderId ==
    <<VStr(<<"u","s","e","r",".","i","d">>),
      [t |-> "obj", col |-> <<"u","s","e","r",".","f","i","r","s","t","_","n","a","m","e">>, dir |-> <<"d","e","s","c">>],
      VStr(<<"?">>)>>

ParamsJohnDoe == [pos |-> <<VStr(<<"J","o","h","n">>), VStr(<<"D","o","e">>)>>]

ParamsAges == [pos |-> <<VNum(18), VNum(65)>>]

ParamsAbc == [pos |-> <<VStr(<<"a">>), VStr(<<"b">>), VStr(<<"c">>)>>]

ParamsSix ==
    [pos |-> <<VStr(<<"p","0">>), VStr(<<"p","1">>), VStr(<<"p","2">>), VStr(<<"p","3">>),
               VStr(<<"p","4">>), VStr(<<"p","5">>)>>]

ParamsNamed ==
    [named |-> <<[name |-> <<"n","a","m","e">>, val |-> VStr(<<"J","o","h","n">>)],
                 [name |-> <<"a","g","e">>, val |-> VNum(30)]>>]

\* the documents given to fromJson: every combination of clauses
ClauseDocuments ==
    {Merge(s, Merge(j, Merge(w, Merge(h, Merge(g, Merge(o, p)))))) :
        s \in {NoKeys, [select |-> SelectUser], [select |-> SelectUsers],
               [insert |-> InsertUsers], [update |-> UpdateUser],
               [delete |-> DeleteUser]},
        j \in {NoKeys, [joins |-> JoinOrders]},
        w \in {NoKeys, [where |-> WhereReadme], [where |-> WhereBetween],
               [where |-> WhereIn], [where |-> WhereNotIn],
               [where |-> WhereNamed]},
        h \in {NoKeys, [having |-> HavingCount]},
        g \in {NoKeys, [group |-> GroupAge]},
        o \in {NoKeys, [order |-> OrderId]},
        p \in {NoKeys, [params |-> ParamsJohnDoe], [params |-> ParamsAges],
               [params |-> ParamsAbc], [params |-> ParamsSix],
               [params |-> ParamsNamed]}}

\* the spellings of the key of a group object
GroupKeys == {"and", "or", "AND", "OR", "And", "Or"}

\* a leaf, then a group under the key k1 that holds a leaf, a group under
\* the key k2 and a leaf
WhereNested(k1, k2) ==
    <<Leaf(<<"u","s","e","r",".","a">>, "=", VNum(1)),
      Group(k1, <<Leaf(<<"u","s","e","r",".","b">>, "=", VNum(2)),
                  Group(k2, <<Leaf(<<"u","s","e","r",".","c">>, "=", VNum(3)),
                              Leaf(<<"u","s","e","r",".","d">>, "=", VNum(4))>>),
                  Leaf(<<"u","s","e","r",".","e">>, "=", VNum(5))>>)>>

\* the values given to contains, begins and ends
LikeValues == {<<"?">>, <<"?",":","n","a","m","e">>, <<"o","'","k">>}

\* a LIKE leaf with the value v, then a comparison with a placeholder
WhereLike(op, v) ==
    <<Leaf(<<"u","s","e","r",".","a">>, op, VStr(v)), Leaf(<<"u","s","e","r",".","b">>, "=", VStr(<<"?">>))>>

\* the places of a query where one token is resolved
Positions ==
    {"value", "column", "in", "not in", "between", "group", "order", "select"}

\* the tokens put there
Tokens ==
    {VNull, VBool(TRUE), VBool(FALSE), VNum(5), VStr(<<"?">>),
     VStr(<<"?",":","n","a","m","e">>), VStr(<<"?",":","n","a","m">>), VStr(<<"?",":","z","i","p">>), VStr(<<"?",":","l","e","n","g","t","h">>),
     VStr(<<"u","s","e","r",".","i","d">>), VStr(<<"u","s","e","r","s",".","i","d">>), VStr(<<"u","s","e","r",".","*">>),
     VStr(<<"x",".","c">>), VStr(<<"x",".","*">>)}

\* the values supplied as parameters
ParamValues ==
    {VNull, VBool(TRUE), VBool(FALSE), VNum(5), VStr(<<"?">>),
     VStr(<<"u","s","e","r",".","i","d">>), VStr(<<"o","'","k">>), VStr(<<"?",":","n","a","m">>)}

PositionalOf(v) == [params |-> [pos |-> <<v, VStr(<<"n","e","x","t">>)>>]]

NamedOf(v) ==
    [params |-> [named |-> <<[name |-> <<"n","a","m">>, val |-> VStr(<<"A","l">>)],
                             [name |-> <<"n","a","m","e">>, val |-> v]>>]]

\* select on {'users': 'user'} with one token at one position
Probe(pos, tok, p) ==
    Merge(p,
      CASE pos = "value" ->
             [select |-> SelectUser,
              where |-> <<[k |-> "leaf", col |-> VStr(<<"u","s","e","r",".","a">>), op |-> "=",
                           val |-> tok]>>]
        [] pos = "column" ->
             [select |-> SelectUser,
              where |-> <<[k |-> "leaf", col |-> tok, op |-> "=",
                           val |-> VNum(1)]>>]
        [] pos \in {"in", "not in"} ->
             [select |-> SelectUser,
              where |-> <<[k |-> "leaf", col |-> VStr(<<"u","s","e","r",".","a">>), op |-> pos,
                           val |-> VArr(<<tok>>)]>>]
        [] pos = "between" ->
             [select |-> SelectUser,
              where |-> <<[k |-> "leaf", col |-> VStr(<<"u","s","e","r",".","a">>),
                           op |-> "between", val |-> VArr(<<tok, tok>>)]>>]
        [] pos = "group" -> [select |-> SelectUser, group |-> <<tok>>]
        [] pos = "order" -> [select |-> SelectUser, order |-> <<tok>>]
        [] pos = "select" ->
             [select |-> [table |-> UsersAsUser, columns |-> <<tok>>]])

ProbeParams ==
    {NoKeys} \cup {PositionalOf(v) : v \in ParamValues}
             \cup {NamedOf(v) : v \in ParamValues}

\* the documents given to fromJson
JsonPayloads ==
    ClauseDocuments
    \cup {[select |-> SelectUser, where |-> WhereNested(k1, k2)] :
             k1 \in GroupKeys, k2 \in GroupKeys}
    \cup {Merge(p, [select |-> SelectUser, where |-> WhereLike(op, v)]) :
             op \in {"contains", "begins", "ends"}, v \in LikeValues,
             p \in {NoKeys, [params |-> ParamsJohnDoe],
                    [params |-> ParamsNamed]}}
    \cup {Probe(pos, tok, p) : pos \in Positions, tok \in Tokens,
                                p \in ProbeParams}

\* the characters of the texts given to sqlEscape
EscAlphabet == EscChars \cup {"a", "0", "Z"}

RECURSIVE TextsUpTo(_)
TextsUpTo(n) ==
    IF n = 0 THEN {<<>>}
    ELSE LET shorter == TextsUpTo(n - 1)
         IN  shorter \cup {Append(s, c) : s \in shorter, c \in EscAlphabet}

-----------------------------------------------------------------------------
(* The state machine.  this is the builder the caller holds, calls the     *)
(* number of calls made on it, arg the argument of the static call under   *)
(* test and result the outcome of the last call that threw or returned a   *)
(* text.                                                                   *)

NoResult == [op |-> "none", kind |-> "none", text |-> <<>>, msg |-> ""]

Thrown(op, msg) == [op |-> op, kind |-> "error", text |-> <<>>, msg |-> msg]

Returned(op, text) == [op |-> op, kind |-> "text", text |-> text, msg |-> ""]

\* A method that throws leaves its message in result; one that returns the
\* builder leaves NoResult.
Select ==
    \E p \in {SelectUser, SelectUsers, [columns |-> <<VStr(<<"u","s","e","r",".","*">>)>>]} :
        \E r \in {select(this, p)} :
            /\ calls < MaxCalls
            /\ calls' = calls + 1
            /\ this' = r.this
            /\ result' = IF r.err # "" THEN Thrown("select", r.err) ELSE NoResult
            /\ UNCHANGED arg

Insert ==
    \E p \in {InsertUsers} :
        \E r \in {insert(this, p)} :
            /\ calls < MaxCalls
            /\ calls' = calls + 1
            /\ this' = r.this
            /\ result' = IF r.err # "" THEN Thrown("insert", r.err) ELSE NoResult
            /\ UNCHANGED arg

Update ==
    \E p \in {UpdateUser} :
        \E r \in {update(this, p)} :
            /\ calls < MaxCalls
            /\ calls' = calls + 1
            /\ this' = r.this
            /\ result' = IF r.err # "" THEN Thrown("update", r.err) ELSE NoResult
            /\ UNCHANGED arg

Delete ==
    \E p \in {DeleteUser} :
        \E r \in {delete(this, p)} :
            /\ calls < MaxCalls
            /\ calls' = calls + 1
            /\ this' = r.this
            /\ result' = IF r.err # "" THEN Thrown("delete", r.err) ELSE NoResult
            /\ UNCHANGED arg

Joins ==
    \E p \in {JoinOrders, JoinXor} :
        \E r \in {joins(this, p)} :
            /\ calls < MaxCalls
            /\ calls' = calls + 1
            /\ this' = r.this
            /\ result' = IF r.err # "" THEN Thrown("joins", r.err) ELSE NoResult
            /\ UNCHANGED arg

Order ==
    \E p \in {OrderId} :
        /\ calls < MaxCalls
        /\ calls' = calls + 1
        /\ this' = order(this, p)
        /\ result' = NoResult
        /\ UNCHANGED arg

Group_ ==
    \E p \in {GroupAge} :
        /\ calls < MaxCalls
        /\ calls' = calls + 1
        /\ this' = group(this, p)
        /\ result' = NoResult
        /\ UNCHANGED arg

Where ==
    \E p \in {WhereId, WhereXor, WhereXorNested} :
        /\ calls < MaxCalls
        /\ calls' = calls + 1
        /\ this' = where(this, p)
        /\ result' = NoResult
        /\ UNCHANGED arg

Having ==
    \E p \in {HavingCount, HavingXor} :
        /\ calls < MaxCalls
        /\ calls' = calls + 1
        /\ this' = having(this, p)
        /\ result' = NoResult
        /\ UNCHANGED arg

Limit ==
    \E p \in {VNum(10)} :
        /\ calls < MaxCalls
        /\ calls' = calls + 1
        /\ this' = limit(this, p)
        /\ result' = NoResult
        /\ UNCHANGED arg

Params ==
    \E p \in {ParamsJohnDoe, ParamsNamed,
               [pos |-> <<VStr(<<"J","o","h","n">>), VStr(<<"J","o","h","n">>)>>]} :
        /\ calls < MaxCalls
        /\ calls' = calls + 1
        /\ this' = params(this, p)
        /\ result' = NoResult
        /\ UNCHANGED arg

Build ==
    /\ calls < MaxCalls
    /\ calls' = calls + 1
    /\ \E r \in {build(this)} :
           /\ this' = r.this
           /\ result' = IF r.err # "" THEN Thrown("build", r.err)
                        ELSE Returned("build", r.ret)
    /\ UNCHANGED arg

Init ==
    /\ this = constructor
    /\ calls = 0
    /\ arg = <<>>
    /\ result = NoResult

Next ==
    \/ Select \/ Insert \/ Update \/ Delete \/ Joins \/ Order \/ Group_
    \/ Where \/ Having \/ Limit \/ Params \/ Build

Spec == Init /\ [][Next]_vars

\* fromJson on each document; sql is the builder fromJson made
FromJson ==
    /\ result.op = "none"
    /\ \E r \in {fromJson(arg)} :
           result' = [op |-> "fromJson",
                      kind |-> IF r.err # "" THEN "error" ELSE "text",
                      text |-> r.ret, msg |-> r.err, sql |-> r.this]
    /\ UNCHANGED <<this, calls, arg>>

InitJson ==
    /\ this = constructor
    /\ calls = 0
    /\ arg \in JsonPayloads
    /\ result = NoResult

NextJson == FromJson

SpecJson == InitJson /\ [][NextJson]_vars

\* sqlEscape on each text
SqlEscape ==
    /\ result.op = "none"
    /\ result' = Returned("sqlEscape", sqlEscape(arg))
    /\ UNCHANGED <<this, calls, arg>>

InitEscape ==
    /\ this = constructor
    /\ calls = 0
    /\ arg \in TextsUpTo(MaxEscLen)
    /\ result = NoResult

NextEscape == SqlEscape

SpecEscape == InitEscape /\ [][NextEscape]_vars

RECURSIVE Orders(_)
\* the sequences in which the keys of S can be taken
Orders(S) ==
    IF S = {} THEN {<<>>}
    ELSE UNION {{<<k>> \o o : o \in Orders(S \ {k})} : k \in S}

\* the fluent calls of one document in every order, build last.  The
\* conditions, the grouping and the ordering name the tables user and order,
\* which the statement call and the joins call introduce.
CallOrders ==
    UNION {{[doc |-> d, order |-> o] : o \in Orders(DOMAIN d)} :
       d \in {Merge(st, [joins |-> JoinOrders, where |-> WhereReadme,
                          having |-> HavingCount, group |-> GroupAge,
                          order |-> OrderId, params |-> ParamsSix]) :
                 st \in {[select |-> SelectUser],
                         [update |-> UpdateUser]}}}

\* the next method of the chain sql.a(..).b(..)
CallNext ==
    /\ calls < Len(arg.order)
    /\ result.kind # "error"
    /\ \E k \in {arg.order[calls + 1]} :
         \E r \in {jsonCall(this, k, arg.doc[k])} :
             /\ this' = r.this
             /\ result' = IF r.err # "" THEN Thrown(k, r.err) ELSE NoResult
    /\ calls' = calls + 1
    /\ UNCHANGED arg

\* .build() at the end of the chain
BuildLast ==
    /\ calls = Len(arg.order)
    /\ result.op = "none"
    /\ \E r \in {build(this)} :
           /\ this' = r.this
           /\ result' = IF r.err # "" THEN Thrown("build", r.err)
                        ELSE Returned("build", r.ret)
    /\ calls' = calls + 1
    /\ UNCHANGED arg

InitOrder ==
    /\ this = constructor
    /\ calls = 0
    /\ arg \in CallOrders
    /\ result = NoResult

SpecOrder == InitOrder /\ [][CallNext \/ BuildLast]_vars

-----------------------------------------------------------------------------
(* Properties.  Under SpecJson a state with Done is the outcome of         *)
(* fromJson(arg): result.text is the query, result.sql the builder after   *)
(* its build, result.sql.resolved the placeholders substituted, in order.  *)

Done == result.op = "fromJson"

\* the text with every newline replaced by a space
Flat(text) == [i \in 1..Len(text) |-> IF text[i] = "\n" THEN " " ELSE text[i]]

\* what select on {'users': 'user'} with columns ['user.*'] compiles to
Header == <<"S","E","L","E","C","T"," ","BQ","u","s","e","r","BQ",".","*","\n","F","R","O","M"," ","BQ","u","s","e","r","s","BQ"," ","A","S"," ","BQ","u","s","e","r","BQ","\n">>

\* the query of Probe(pos, tok, p) when tok is rendered as x there
Frame(pos, x) ==
    CASE pos = "value" -> Header \o <<"W","H","E","R","E"," ","BQ","u","s","e","r","BQ",".","BQ","a","BQ"," ","="," ">> \o x \o <<"\n">>
      [] pos = "column" -> Header \o <<"W","H","E","R","E"," ">> \o x \o <<" ","="," ","1","\n">>
      [] pos = "in" ->
           Header \o <<"W","H","E","R","E"," ","BQ","u","s","e","r","BQ",".","BQ","a","BQ"," ","I","N"," ","(">> \o x \o <<")","\n">>
      [] pos = "not in" ->
           Header \o <<"W","H","E","R","E"," ","BQ","u","s","e","r","BQ",".","BQ","a","BQ"," ","N","O","T"," ","I","N"," ","(">> \o x \o <<")","\n">>
      [] pos = "between" ->
           Header \o <<"W","H","E","R","E"," ","BQ","u","s","e","r","BQ",".","BQ","a","BQ"," ","B","E","T","W","E","E","N"," ">> \o x \o <<" ","A","N","D"," ">> \o x
           \o <<"\n">>
      [] pos = "group" -> Header \o <<"G","R","O","U","P"," ","B","Y"," ">> \o x \o <<"\n">>
      [] pos = "order" -> Header \o <<"O","R","D","E","R"," ","B","Y"," ">> \o x \o <<"\n">>
      [] pos = "select" ->
           <<"S","E","L","E","C","T"," ">> \o x \o <<"\n","F","R","O","M"," ","BQ","u","s","e","r","s","BQ"," ","A","S"," ","BQ","u","s","e","r","BQ","\n">>

\* the positions where the code resolves with forceQuote
ForcedPositions == {"in", "not in", "group", "order", "select"}

\* the positional parameters of a document
PositionalParams(doc) ==
    IF "params" \in DOMAIN doc /\ "pos" \in DOMAIN doc.params
    THEN doc.params.pos ELSE <<>>

StringValues == {v \in ParamValues : v.t = "str"}

\* C1: with table user registered and params ['John','Doe'], the where
\* example of the README compiles to
\* `user`.`active` = 1 AND (`user`.`first_name` = 'John' OR
\* `user`.`last_name` = 'Doe') (line breaks apart).
C1_ReadmeWhere ==
    (Done /\ arg = [select |-> SelectUser, where |-> WhereReadme,
                    params |-> ParamsJohnDoe])
    => /\ result.kind = "text"
       /\ Flat(result.text) = Flat(Header \o
            <<"W","H","E","R","E"," ","BQ","u","s","e","r","BQ",".","BQ","a","c","t","i","v","e","BQ"," ","="," ","1"," ","A","N","D"," ","(","BQ","u","s","e","r","BQ",".","BQ","f","i","r","s","t","_","n","a","m","e","BQ"," ","="," ","'","J","o","h","n","'"," ","O","R"," ","BQ","u","s","e","r","BQ",".","BQ","l","a","s","t","_","n","a","m","e","BQ"," ","="," ","'","D","o","e","'",")","\n">>)

\* the order in which the claim says build compiles the clauses
ClaimedRank(clause) ==
    CASE clause = "stmt" -> 0
      [] clause = "join" -> 1
      [] clause = "where" -> 2
      [] clause = "having" -> 3
      [] clause = "group" -> 4
      [] clause = "order" -> 5

\* the order in which it does: update compiles its joins before its values
CompiledRank(mode, clause) ==
    IF mode = "update" /\ clause \in {"stmt", "join"}
    THEN (IF clause = "join" THEN 0 ELSE 1)
    ELSE ClaimedRank(clause)

\* the k-th placeholder resolved takes parameter k and moves the cursor by one
ConsumedInOrder ==
    LET log == result.sql.resolved
    IN  /\ \A k \in 1..Len(log) : log[k].param = k - 1
        /\ result.sql.sql_param_counter = Len(log)
        /\ Len(log) <= Len(PositionalParams(arg))

\* left to right inside one list
InListInOrder ==
    arg = [select |-> SelectUser, where |-> WhereIn, params |-> ParamsAbc]
    => result.text = Header \o <<"W","H","E","R","E"," ","BQ","u","s","e","r","BQ",".","BQ","n","i","c","k","n","a","m","e","BQ"," ","I","N"," ","(","'","a","'",",","'","b","'",",","'","c","'",")","\n">>

\* C2 as stated: in one build on a fresh builder the k-th `?` resolved,
\* counted through statement columns/values, join conditions, WHERE, HAVING,
\* GROUP BY, ORDER BY, takes parameter k and advances the cursor by one.
C2_ClaimedOrder ==
    (Done /\ result.kind = "text")
    => /\ ConsumedInOrder
       /\ InListInOrder
       /\ \A k, l \in 1..Len(result.sql.resolved) :
             k < l => ClaimedRank(result.sql.resolved[k].clause)
                        <= ClaimedRank(result.sql.resolved[l].clause)

\* C2 amended: the same, counted in the order build compiles the clauses,
\* which for update is join conditions before the SET values.
C2_CompiledOrder ==
    (Done /\ result.kind = "text")
    => /\ ConsumedInOrder
       /\ InListInOrder
       /\ \A k, l \in 1..Len(result.sql.resolved) :
             k < l => CompiledRank(result.sql.sql_mode,
                                   result.sql.resolved[k].clause)
                        <= CompiledRank(result.sql.sql_mode,
                                        result.sql.resolved[l].clause)

\* an update whose join condition took parameter 0 and whose SET value took
\* parameter 1
C2_Witness ==
    /\ Done
    /\ result.kind = "text"
    /\ result.sql.sql_mode = "update"
    /\ result.sql.resolved = <<[clause |-> "join", param |-> 0],
                               [clause |-> "stmt", param |-> 1]>>

\* C3: a string supplied as a parameter value, positional or named, is
\* emitted as the single-quoted literal of its sqlEscape, is not taken for a
\* placeholder (it consumes no further parameter) and is not quoted as an
\* identifier.
C3_StringParamQuoted ==
    Done =>
      \A pos \in Positions \ {"between"} : \A v \in StringValues :
        /\ arg = Probe(pos, VStr(<<"?">>), PositionalOf(v))
           => /\ result.text = Frame(pos, <<"'">> \o sqlEscape(v.s) \o <<"'">>)
              /\ Len(result.sql.resolved) = 1
              /\ result.sql.sql_param_counter = 1
        /\ arg = Probe(pos, VStr(<<"?",":","n","a","m","e">>), NamedOf(v))
           => /\ result.text = Frame(pos, <<"'">> \o sqlEscape(v.s) \o <<"'">>)
              /\ Len(result.sql.resolved) = 0
              /\ result.sql.sql_param_counter = 0

\* the parameter value 'user.id', with user registered, came out as 'user.id'
C3_Witness ==
    /\ Done
    /\ arg = Probe("value", VStr(<<"?">>), PositionalOf(VStr(<<"u","s","e","r",".","i","d">>)))
    /\ result.text = Frame("value", <<"'","u","s","e","r",".","i","d","'">>)

\* what the claim says a null, boolean or number is rendered as
ClaimedLiteral(v, forceQuote) ==
    CASE v.t = "null" -> <<"N","U","L","L">>
      [] v.t = "bool" -> IF v.b THEN <<"1">> ELSE <<"0">>
      [] v.t = "num" -> IF forceQuote THEN <<"'">> \o NumStr(v.n) \o <<"'">>
                        ELSE NumStr(v.n)

\* C4: the Value Resolver renders null as NULL, true as 1, false as 0 and a
\* number as-is, or single-quoted under forceQuote; the same for such a
\* value reached through a placeholder.
C4_LiteralsByType ==
    Done =>
      \A pos \in {"value", "in"} :
        \A v \in {VNull, VBool(TRUE), VBool(FALSE), VNum(5)} :
          /\ arg = Probe(pos, v, NoKeys)
             => result.text = Frame(pos, ClaimedLiteral(v, pos = "in"))
          /\ arg = Probe(pos, VStr(<<"?">>), PositionalOf(v))
             => result.text = Frame(pos, ClaimedLiteral(v, pos = "in"))
          /\ arg = Probe(pos, VStr(<<"?",":","n","a","m","e">>), NamedOf(v))
             => result.text = Frame(pos, ClaimedLiteral(v, pos = "in"))

\* C5: the elements of between, in and not in are resolved with forceQuote
\* in order: ['user.age','between',['?','?']] with [18,65] gives
\* `user`.`age` BETWEEN '18' AND '65', and ['user.nickname','in',['?','?','?']]
\* with ['a','b','c'] gives `user`.`nickname` IN ('a','b','c').
C5_SequenceOperators ==
    Done =>
      /\ arg = [select |-> SelectUser, where |-> WhereBetween,
                params |-> ParamsAges]
         => result.text =
              Header \o <<"W","H","E","R","E"," ","BQ","u","s","e","r","BQ",".","BQ","a","g","e","BQ"," ","B","E","T","W","E","E","N"," ","'","1","8","'"," ","A","N","D"," ","'","6","5","'","\n">>
      /\ arg = [select |-> SelectUser, where |-> WhereIn,
                params |-> ParamsAbc]
         => result.text =
              Header \o <<"W","H","E","R","E"," ","BQ","u","s","e","r","BQ",".","BQ","n","i","c","k","n","a","m","e","BQ"," ","I","N"," ","(","'","a","'",",","'","b","'",",","'","c","'",")","\n">>
      /\ arg = [select |-> SelectUser, where |-> WhereNotIn,
                params |-> ParamsAges]
         => result.text =
              Header \o <<"W","H","E","R","E"," ","BQ","u","s","e","r","BQ",".","BQ","n","i","c","k","n","a","m","e","BQ"," ","N","O","T"," ","I","N"," ","(","'","1","8","'",",","'","6","5","'",")","\n">>

\* the operators processCondition has a case for
OperatorTable ==
    {"=", "<=", ">=", "<", ">", "!=", "<>", "is", "is not", "between", "in",
     "not in", "contains", "begins", "ends", "in set"}

RECURSIVE HasUnknownOperator(_)
\* some leaf of the list, at top level or inside and/or groups, has an
\* operator outside the table
HasUnknownOperator(conditions) ==
    \E i \in 1..Len(conditions) :
        \/ /\ conditions[i].k = "leaf"
           /\ conditions[i].op \notin OperatorTable
        \/ /\ conditions[i].k = "group"
           /\ conditions[i].key \in {"and", "or", "AND", "OR"}
           /\ HasUnknownOperator(conditions[i].items)

StoresUnknownOperator(self) ==
    \/ HasUnknownOperator(self.sql_where)
    \/ HasUnknownOperator(self.sql_having)
    \/ \E i \in 1..Len(self.sql_joins) :
           HasUnknownOperator(self.sql_joins[i].conditions)

\* C6 as stated: when a leaf stored by where, having or joins has an operator
\* outside the table, build fails with the unknown-operator error and
\* returns no text; the call that stored the leaf does not fail.
C6_UnknownOperatorFails ==
    /\ (result.op = "build" /\ StoresUnknownOperator(this))
       => result = Thrown("build", "Condition: Unknown clause")
    /\ result.msg = "Condition: Unknown clause" => result.op = "build"

\* C6 amended: the same on a builder on which select, insert, update or
\* delete was called; with no statement registered build fails as well and
\* returns no text, but with the unknown-query-type error.
C6_FailsOnceStatementSet ==
    /\ (result.op = "build" /\ StoresUnknownOperator(this))
       => result = Thrown("build",
                          IF this.sql_mode = "null" THEN "Unknown query type"
                          ELSE "Condition: Unknown clause")
    /\ result.msg = "Condition: Unknown clause" => result.op = "build"

\* build threw on a leaf nested in a group of the WHERE list, after a valid
\* leaf had been compiled
C6_Witness ==
    /\ result = Thrown("build", "Condition: Unknown clause")
    /\ this.sql_mode = "select"
    /\ HasUnknownOperator(this.sql_where)
    /\ this.sql_where[1].k = "group"
    /\ ~HasUnknownOperator(this.sql_having)
    /\ this.sql_joins = <<>>

\* C7: ?:name with name supplied resolves to the mapped value each time it
\* is referenced and leaves the cursor alone; a name that is a substring of
\* another supplied name does not resolve to the other's value; ?:name with
\* name not supplied is not substituted but handled as an identifier.
C7_NamedPlaceholders ==
    Done =>
      /\ \A v \in StringValues :
            arg = Probe("value", VStr(<<"?",":","n","a","m","e">>), NamedOf(v))
            => /\ result.text
                    = Frame("value", <<"'">> \o sqlEscape(v.s) \o <<"'">>)
               /\ result.sql.sql_param_counter = 0
      /\ \A v \in ParamValues :
            arg = Probe("value", VStr(<<"?",":","n","a","m">>), NamedOf(v))
            => result.text = Frame("value", <<"'","A","l","'">>)
      /\ arg = [select |-> SelectUser, where |-> WhereNamed,
                params |-> ParamsNamed]
         => /\ result.text = Header \o
                 <<"W","H","E","R","E"," ","BQ","u","s","e","r","BQ",".","BQ","f","i","r","s","t","_","n","a","m","e","BQ"," ","="," ","'","J","o","h","n","'","\n","A","N","D"," ","BQ","u","s","e","r","BQ",".","BQ","a","g","e","BQ"," ","="," ","3","0","\n","A","N","D"," ","BQ","u","s","e","r","BQ",".","BQ","n","i","c","k","n","a","m","e","BQ"," ","="," ","'","J","o","h","n","'","\n">>
            /\ result.sql.sql_param_counter = 0
      /\ \A p \in ProbeParams :
            \A tok \in {VStr(<<"?",":","z","i","p">>), VStr(<<"?",":","l","e","n","g","t","h">>)}
                       \cup (IF \E v \in ParamValues : p = NamedOf(v)
                             THEN {}
                             ELSE {VStr(<<"?",":","n","a","m","e">>), VStr(<<"?",":","n","a","m">>)}) :
               arg = Probe("value", tok, p)
               => /\ result.text = Frame("value", tok.s)
                  /\ result.sql.sql_param_counter = 0

\* what a token table.column or table.* with table registered resolves to
QuotedIdentifier(tok) ==
    CASE tok = VStr(<<"u","s","e","r",".","i","d">>) -> <<"BQ","u","s","e","r","BQ",".","BQ","i","d","BQ">>
      [] tok = VStr(<<"u","s","e","r","s",".","i","d">>) -> <<"BQ","u","s","e","r","s","BQ",".","BQ","i","d","BQ">>
      [] tok = VStr(<<"u","s","e","r",".","*">>) -> <<"BQ","u","s","e","r","BQ",".","*">>

RegisteredTokens == {VStr(<<"u","s","e","r",".","i","d">>), VStr(<<"u","s","e","r","s",".","i","d">>), VStr(<<"u","s","e","r",".","*">>)}

UnregisteredTokens == {VStr(<<"x",".","c">>), VStr(<<"x",".","*">>)}

\* C8 as stated: t.c with t registered resolves to `t`.`c`, t.* to `t`.*,
\* and a dotted token whose first segment is not registered is returned
\* unchanged, in conditions, select columns, GROUP BY and ORDER BY.
C8_RegistryGate ==
    Done =>
      \A pos \in Positions \ {"between"} : \A p \in ProbeParams :
        /\ \A tok \in RegisteredTokens :
              arg = Probe(pos, tok, p)
              => result.text = Frame(pos, QuotedIdentifier(tok))
        /\ \A tok \in UnregisteredTokens :
              arg = Probe(pos, tok, p) => result.text = Frame(pos, tok.s)

\* C8 amended: the unregistered token is unchanged where it is resolved
\* without forceQuote (the operands of a comparison) and wrapped whole in
\* one pair of backticks where it is resolved with forceQuote (in / not in
\* elements, select columns, GROUP BY, ORDER BY).
C8_RegistryGateForced ==
    Done =>
      \A pos \in Positions \ {"between"} : \A p \in ProbeParams :
        /\ \A tok \in RegisteredTokens :
              arg = Probe(pos, tok, p)
              => result.text = Frame(pos, QuotedIdentifier(tok))
        /\ \A tok \in UnregisteredTokens :
              arg = Probe(pos, tok, p)
              => result.text =
                   Frame(pos, IF pos \in ForcedPositions
                              THEN <<"BQ">> \o tok.s \o <<"BQ">>
                              ELSE tok.s)

\* GROUP BY x.c with x not registered came out as `x.c`, and user.id as
\* `user`.`id`
C8_Witness ==
    /\ Done
    /\ \/ /\ arg = Probe("group", VStr(<<"x",".","c">>), NoKeys)
          /\ result.text = Frame("group", <<"BQ","x",".","c","BQ">>)
       \/ /\ arg = Probe("group", VStr(<<"u","s","e","r",".","i","d">>), NoKeys)
          /\ result.text = Frame("group", <<"BQ","u","s","e","r","BQ",".","BQ","i","d","BQ">>)

\* the escape the claim gives for each character
ClaimedEscape(c) ==
    CASE c = "NUL" -> <<"\\", "0">>
      [] c = "BS" -> <<"\\", "b">>
      [] c = "\t" -> <<"\\", "t">>
      [] c = "\n" -> <<"\\", "n">>
      [] c = "\r" -> <<"\\", "r">>
      [] c = "SUB" -> <<"\\", "Z">>
      [] c = "\"" -> <<"\\", "\"">>
      [] c = "'" -> <<"\\", "'">>
      [] c = "\\" -> <<"\\", "\\">>
      [] OTHER -> <<c>>

RECURSIVE EscapedInPlace(_)
EscapedInPlace(s) ==
    IF Len(s) = 0 THEN <<>>
    ELSE ClaimedEscape(Head(s)) \o EscapedInPlace(Tail(s))

\* the character an escape pair \c stands for
Unescaped(c) ==
    CASE c = "0" -> "NUL"
      [] c = "b" -> "BS"
      [] c = "t" -> "\t"
      [] c = "n" -> "\n"
      [] c = "r" -> "\r"
      [] c = "Z" -> "SUB"
      [] OTHER -> c

RECURSIVE Unescape(_, _)
\* the text a string-literal grammar reads from t, from index i on
Unescape(t, i) ==
    IF i > Len(t) THEN <<>>
    ELSE IF t[i] = "\\" /\ i < Len(t)
    THEN <<Unescaped(t[i + 1])>> \o Unescape(t, i + 2)
    ELSE <<t[i]>> \o Unescape(t, i + 1)

RECURSIVE OnlyEscapePairs(_, _)
\* from index i on, every backslash starts a pair and no single quote
\* stands outside one
OnlyEscapePairs(t, i) ==
    IF i > Len(t) THEN TRUE
    ELSE IF t[i] = "\\" THEN i < Len(t) /\ OnlyEscapePairs(t, i + 2)
    ELSE t[i] # "'" /\ OnlyEscapePairs(t, i + 1)

\* C9: sqlEscape(s) is s with each of NUL, backspace, tab, newline, carriage
\* return, 0x1a, double quote, single quote and backslash replaced in place
\* by its backslash escape and every other character kept; so no quote or
\* backslash stands outside an escape pair and undoing the escapes gives s.
C9_EscapeInPlace ==
    result.op = "sqlEscape"
    => /\ result.text = EscapedInPlace(arg)
       /\ OnlyEscapePairs(result.text, 1)
       /\ Unescape(result.text, 1) = arg

\* a text with a quote in the middle and a backslash at the end was escaped
C9_Witness ==
    /\ result.op = "sqlEscape"
    /\ arg = <<"a", "'", "\\">>
    /\ result.text = <<"a", "\\", "'", "\\", "\\">>

\* the documents whose `?` finds no positional parameter
NoPositional(p) == p = NoKeys \/ \E v \in ParamValues : p = NamedOf(v)

\* C10 as stated: a `?` with no positional parameter left at the cursor is
\* not an error: build returns text, the cursor stays, and the placeholder
\* is echoed as the literal ? in comparison values, between / in elements
\* and GROUP BY / ORDER BY entries; no more placeholders are substituted
\* than parameters were supplied.
C10_EchoedLiteral ==
    Done =>
      /\ Len(result.sql.resolved) <= Len(PositionalParams(arg))
      /\ \A pos \in {"value", "in", "not in", "between", "group", "order"} :
           \A p \in {q \in ProbeParams : NoPositional(q)} :
             arg = Probe(pos, VStr(<<"?">>), p)
             => /\ result.kind = "text"
                /\ result.text = Frame(pos, <<"?">>)
                /\ result.sql.sql_param_counter = 0
      /\ arg = [select |-> SelectUser, where |-> WhereIn,
                params |-> ParamsJohnDoe]
         => /\ result.text =
                 Header \o <<"W","H","E","R","E"," ","BQ","u","s","e","r","BQ",".","BQ","n","i","c","k","n","a","m","e","BQ"," ","I","N"," ","(","'","J","o","h","n","'",",","'","D","o","e","'",",","?",")","\n">>
            /\ result.sql.sql_param_counter = 2

\* C10 amended: the placeholder is echoed as ? where it is resolved without
\* forceQuote (the operands of a comparison) and as the backtick-quoted `?`
\* where it is resolved with forceQuote (in / not in elements, select
\* columns, GROUP BY / ORDER BY entries); the rest as stated.
C10_EchoedOrBackticked ==
    Done =>
      /\ Len(result.sql.resolved) <= Len(PositionalParams(arg))
      /\ \A pos \in Positions \ {"between"} :
           \A p \in {q \in ProbeParams : NoPositional(q)} :
             arg = Probe(pos, VStr(<<"?">>), p)
             => /\ result.kind = "text"
                /\ result.text = Frame(pos, IF pos \in ForcedPositions
                                            THEN <<"BQ","?","BQ">> ELSE <<"?">>)
                /\ result.sql.sql_param_counter = 0
      /\ arg = [select |-> SelectUser, where |-> WhereIn,
                params |-> ParamsJohnDoe]
         => /\ result.text =
                 Header \o <<"W","H","E","R","E"," ","BQ","u","s","e","r","BQ",".","BQ","n","i","c","k","n","a","m","e","BQ"," ","I","N"," ","(","'","J","o","h","n","'",",","'","D","o","e","'",",","BQ","?","BQ",")","\n">>
            /\ result.sql.sql_param_counter = 2

\* three placeholders met two parameters: two substituted, the third echoed
C10_Witness ==
    /\ Done
    /\ arg = [select |-> SelectUser, where |-> WhereIn,
              params |-> ParamsJohnDoe]
    /\ Len(result.sql.resolved) = 2
    /\ result.text =
         Header \o <<"W","H","E","R","E"," ","BQ","u","s","e","r","BQ",".","BQ","n","i","c","k","n","a","m","e","BQ"," ","I","N"," ","(","'","J","o","h","n","'",",","'","D","o","e","'",",","BQ","?","BQ",")","\n">>

\* no two positional parameters of the builder are the same
DistinctParams(self) ==
    \A i, j \in 1..Len(self.sql_params.pos) :
        i # j => self.sql_params.pos[i] # self.sql_params.pos[j]

\* no call lowers the cursor, only build moves it, and a build starts
\* resolving at the parameter the cursor was left at
CursorKept ==
    /\ this'.sql_param_counter >= this.sql_param_counter
    /\ result'.op # "build"
       => this'.sql_param_counter = this.sql_param_counter
    /\ result'.op = "build"
       => /\ this'.sql_param_counter
               = this.sql_param_counter + Len(this'.resolved)
          /\ \A i \in 1..Len(this'.resolved) :
                this'.resolved[i].param = this.sql_param_counter + i - 1

\* a build that returned text after resolving a placeholder is followed at
\* once by a build that returns text
BuildAfterBuild ==
    /\ result.op = "build" /\ result.kind = "text"
    /\ Len(this.resolved) > 0
    /\ result'.op = "build" /\ result'.kind = "text"
    /\ calls' = calls + 1

Registered(self) ==
    {self.sql_identifiers[i] : i \in 1..Len(self.sql_identifiers)}

\* C12: the names and aliases given to the statement call and to joins are
\* registered before a condition is compiled, and build returns the same
\* text in whatever order select/update, joins, where, having, group, order
\* and params were called: the text fromJson returns, which calls the
\* statement method and joins first.
C12_AnyCallOrder ==
    result.op = "build"
    => /\ {<<"u","s","e","r","s">>, <<"u","s","e","r">>, <<"o","r","d","e","r","s">>, <<"o","r","d","e","r">>} \subseteq Registered(this)
       /\ \E r \in {fromJson(arg.doc)} :
             /\ r.err = ""
             /\ result = Returned("build", r.ret)

\* where, having, group, order and params were called before joins and
\* select, and build returned the query
C12_Witness ==
    /\ result.op = "build"
    /\ result.kind = "text"
    /\ arg.order = <<"where", "having", "group", "order", "params", "joins",
                     "select">>
    /\ Len(result.text) > 0

\* the combinator the claim gives a group key, in any letter case
ClaimedCombinator(key) ==
    IF key \in {"or", "OR", "Or"} THEN <<" ","O","R"," ">> ELSE <<" ","A","N","D"," ">>

\* `user`.`c` = n
LeafText(c, n) == <<"BQ","u","s","e","r","BQ",".","BQ">> \o <<c>> \o <<"BQ"," ","="," ">> \o <<n>>

\* the WHERE clause of WhereNested(k1, k2) when outer is the text of the
\* group under k1
NestedFrame(outer) ==
    Header \o <<"W","H","E","R","E"," ">> \o LeafText("a", "1") \o <<"\n","A","N","D"," ">> \o outer \o <<"\n">>

\* the text of the group under k1 when inner is the text of the group
\* under k2
OuterGroup(k1, inner) ==
    <<"(">> \o LeafText("b", "2") \o ClaimedCombinator(k1) \o inner
          \o ClaimedCombinator(k1) \o LeafText("e", "5") \o <<")">>

InnerGroup(k2) ==
    <<"(">> \o LeafText("c", "3") \o ClaimedCombinator(k2) \o LeafText("d", "4") \o <<")">>

\* the keys under which the code compiles the children
CompiledKeys == {"and", "or", "AND", "OR"}

\* how many times c stands in text
Count(text, c) == Cardinality({i \in 1..Len(text) : text[i] = c})

\* C13 as stated: an object with a key and / or in any letter case renders
\* as its compiled children joined by its own combinator inside one pair of
\* parentheses, so two nested groups give two pairs.
C13_GroupAnyCase ==
    Done =>
      \A k1, k2 \in GroupKeys :
        arg = [select |-> SelectUser, where |-> WhereNested(k1, k2)]
        => /\ result.text = NestedFrame(OuterGroup(k1, InnerGroup(k2)))
           /\ Count(result.text, "(") = 2
           /\ Count(result.text, ")") = 2

\* C13 amended: the same for the keys and, or, AND and OR; under a key in
\* another letter case (And, Or) the children are not compiled and the item
\* renders as the empty pair ().
C13_GroupLowerOrUpper ==
    Done =>
      \A k1, k2 \in GroupKeys :
        arg = [select |-> SelectUser, where |-> WhereNested(k1, k2)]
        => /\ result.text =
                NestedFrame(IF k1 \notin CompiledKeys THEN <<"(",")">>
                            ELSE OuterGroup(k1, IF k2 \notin CompiledKeys
                                                THEN <<"(",")">>
                                                ELSE InnerGroup(k2)))
           /\ Count(result.text, "(") = Count(result.text, ")")
           /\ Count(result.text, "(")
                = IF k1 \in CompiledKeys THEN 2 ELSE 1

\* an AND group inside an or group came out with two pairs of parentheses
C13_Witness ==
    /\ Done
    /\ arg = [select |-> SelectUser, where |-> WhereNested("or", "AND")]
    /\ result.text =
         Header \o <<"W","H","E","R","E"," ","BQ","u","s","e","r","BQ",".","BQ","a","BQ"," ","="," ","1","\n","A","N","D"," ","(","BQ","u","s","e","r","BQ",".","BQ","b","BQ"," ","="," ","2"," ","O","R"," ","(","BQ","u","s","e","r","BQ",".","BQ","c","BQ"," ","="," ","3"," ","A","N","D"," ","BQ","u","s","e","r","BQ",".","BQ","d","BQ"," ","="," ","4",")"," ","O","R"," ","BQ","u","s","e","r","BQ",".","BQ","e","BQ"," ","="," ","5",")","\n">>

\* the LIKE pattern the claim gives each operator, v escaped
ClaimedPattern(op, v) ==
    CASE op = "contains" -> <<"'","%">> \o EscapedInPlace(v) \o <<"%","'">>
      [] op = "begins" -> <<"'">> \o EscapedInPlace(v) \o <<"%","'">>
      [] op = "ends" -> <<"'","%">> \o EscapedInPlace(v) \o <<"'">>

\* the query of WhereLike(op, v) when the `?` of the comparison after the
\* LIKE leaf is rendered as next
LikeFrame(op, v, next) ==
    Header \o <<"W","H","E","R","E"," ","BQ","u","s","e","r","BQ",".","BQ","a","BQ"," ","L","I","K","E"," ">> \o ClaimedPattern(op, v)
           \o <<"\n","A","N","D"," ","BQ","u","s","e","r","BQ",".","BQ","b","BQ"," ","="," ">> \o next \o <<"\n">>

====
